---- MODULE Spec2Model ----
(***************************************************************************)
(* Model of ufcli.UFcli.RunAndExit (src/ufcli/ufcli.go): the run           *)
(* coordinator with its instance lock, its signal goroutine, the           *)
(* sync.Once-guarded shutdown closure, the app.Before hook and the         *)
(* deferred epilogue.  Several processes of the same application run on    *)
(* one host and share the lock directory.                                  *)
(***************************************************************************)
EXTENDS Integers, Sequences, FiniteSets, TLC

\* ---------------------------------------------------------------- bounds
NumProcs == 2
MaxArgs == 1
MaxArgsWide == 2
MaxNameLen == 2

Procs == 1..NumProcs
Threads == {"main", "sig"}

\* ------------------------------------------------- strings as characters
sEmpty == << >>
sDashH == <<"-", "h">>
sDashDashHelp == <<"-", "-", "h", "e", "l", "p">>
sHelp == <<"h", "e", "l", "p">>
sH == <<"h">>
sRun == <<"r", "u", "n">>
sR == <<"r">>
sGc == <<"g", "c">>
sZ == <<"z">>
sAction == <<"A", "c", "t", "i", "o", "n">>
AppName == <<"m", "y", "-", "a", "p", "p">>
sExample == <<"m", "y", "-", "a", "p", "p", " ", "v", "2", "!", "!">>

Alnum == {"a", "c", "e", "g", "h", "i", "l", "m", "n", "o", "p", "r", "t",
          "u", "v", "y", "z", "A", "0", "1", "2"}

Range(s) == {s[i] : i \in DOMAIN s}

RECURSIVE promStrFromEachChar(_, _, _)
promStrFromEachChar(s, i, inRun) ==
    IF i > Len(s) THEN << >>
    ELSE IF s[i] \in Alnum THEN <<s[i]>> \o promStrFromEachChar(s, i + 1, FALSE)
    ELSE <<"_">> \o promStrFromEachChar(s, i + 1, TRUE)

\* promStr: nonAlphanumericRun.ReplaceAllString(s, "_"), left to right; a
\* maximal run of characters outside [a-zA-Z0-9] yields one underscore.
RECURSIVE promStrFrom(_, _, _)
promStrFrom(s, i, inRun) ==
    IF i > Len(s) THEN << >>
    ELSE IF s[i] \in Alnum THEN <<s[i]>> \o promStrFrom(s, i + 1, FALSE)
    ELSE IF inRun THEN promStrFrom(s, i + 1, TRUE)
    ELSE <<"_">> \o promStrFrom(s, i + 1, TRUE)

promStr(s) == promStrFrom(s, 1, FALSE)

\* ------------------------------------------------------------- errors
\* kind: where the error came from; locked: errors.As(err, LockedError);
\* prior: the error a panic was combined with; frames: cmn.WrErr wrappers.
NoErr == [kind |-> "nil", locked |-> FALSE, prior |-> "nil", frames |-> 0]
MkErr(k, l) == [kind |-> k, locked |-> l, prior |-> "nil", frames |-> 0]

WrErr(err) ==
    IF err = NoErr THEN NoErr ELSE [err EXCEPT !.frames = err.frames + 1]

\* ------------------------------------------------- registered commands
runCmd == [Name |-> sRun, Aliases |-> <<sR>>]
gcCmd == [Name |-> sGc, Aliases |-> << >>]
helpCmd == [Name |-> sHelp, Aliases |-> <<sH>>]
CommandSets == { << >>, <<runCmd, helpCmd>> }
CommandSetsWide == { << >>, <<helpCmd>>, <<runCmd, gcCmd, helpCmd>> }

\* names to sanitise: for the command every short string over a letter, a
\* hyphen and an underscore; for the application four names, with and
\* without characters outside [a-zA-Z0-9] at their ends
NameChars == {"a", "-", "_"}
ShortNames == UNION {[1..n -> NameChars] : n \in 1..MaxNameLen}
AppNames == {AppName, sExample, <<"a", "_">>, <<"_", "-", "a">>}

ArgTokens == {sDashH, sDashDashHelp, sRun, sR, sZ}
ArgTokensWide == ArgTokens \cup {sGc}
ArgLists(tokens, max) == UNION {[1..n -> tokens] : n \in 0..max}

\* cmdNames: every name and alias mapped to its canonical name, the
\* command named "help" left out.
RECURSIVE CmdNamesFrom(_, _)
CmdNamesFrom(cmds, i) ==
    IF i = 0 THEN << >>
    ELSE LET m == CmdNamesFrom(cmds, i - 1)
             c == cmds[i]
             keys == {c.Name} \cup Range(c.Aliases)
         IN IF c.Name = sHelp THEN m
            ELSE [k \in DOMAIN m \cup keys |-> IF k \in keys THEN c.Name ELSE m[k]]

CmdNames(cmds) == CmdNamesFrom(cmds, Len(cmds))

CmdLookup(m, a) == IF a \in DOMAIN m THEN m[a] ELSE sEmpty

IsHelpFlagShortOnly(a) == a = sDashH

IsHelpFlag(a) == a = sDashH \/ a = sDashDashHelp

RECURSIVE ScanArgsLastWins(_, _, _, _)
ScanArgsLastWins(m, args, i, cur) ==
    IF i > Len(args) THEN [help |-> FALSE, cmd |-> cur]
    ELSE IF IsHelpFlag(args[i]) THEN [help |-> TRUE, cmd |-> cur]
    ELSE ScanArgsLastWins(m, args, i + 1,
                          IF args[i] \in DOMAIN m THEN m[args[i]] ELSE cur)

\* the os.Args loop, i = 1 .. len(os.Args)-1 (osArgs excludes the program name)
RECURSIVE ScanArgs(_, _, _, _)
ScanArgs(m, args, i, cur) ==
    IF i > Len(args) THEN [help |-> FALSE, cmd |-> cur]
    ELSE IF IsHelpFlag(args[i]) THEN [help |-> TRUE, cmd |-> cur]
    ELSE IF cur # sEmpty THEN ScanArgs(m, args, i + 1, cur)
    ELSE ScanArgs(m, args, i + 1, CmdLookup(m, args[i]))

IdentifyCmdActionOnNoMatch(cmds, args) ==
    LET m == CmdNames(cmds)
        sc == ScanArgs(m, args, 1, sEmpty)
    IN IF sc.help THEN [proceed |-> FALSE, help |-> TRUE, cmd |-> sc.cmd]
       ELSE IF DOMAIN m = {} \/ sc.cmd = sEmpty
            THEN [proceed |-> TRUE, help |-> FALSE, cmd |-> sAction]
       ELSE [proceed |-> TRUE, help |-> FALSE, cmd |-> sc.cmd]

\* command identification: what the block of app.Before leaves in currentCmd
\* and whether the hook goes on to the lock
IdentifyCmd(cmds, args) ==
    LET m == CmdNames(cmds)
        sc == ScanArgs(m, args, 1, sEmpty)
    IN IF sc.help THEN [proceed |-> FALSE, help |-> TRUE, cmd |-> sc.cmd]
       ELSE IF DOMAIN m = {} THEN [proceed |-> TRUE, help |-> FALSE, cmd |-> sAction]
       ELSE IF sc.cmd = sEmpty THEN [proceed |-> FALSE, help |-> FALSE, cmd |-> sEmpty]
       ELSE [proceed |-> TRUE, help |-> FALSE, cmd |-> sc.cmd]

\* ---------------------------------------------------------------- state
VARIABLES
    appName,         \* uf.AppConfig.Name, which is app.Name
    Commands,        \* cctx.App.Commands of the application
    osArgs,          \* os.Args[1:] of each process
    isTTY,           \* isatty.IsTerminal(os.Stderr.Fd())
    uf,              \* the UFcli hooks: which of them are non-nil
    world,           \* what the surroundings of each process may do
    flocks,          \* lock files held in os.TempDir(): [key, owner]
    pc,              \* position of the main path and of the signal goroutine
    scopeErr,
    panicking,       \* a panic is unwinding RunAndExit: [on, bodyErr]
    currentCmd,
    currentCmdLock,  \* "nil" or "held"
    resourcesCloser, \* "nil", "ok" or "err" (what the closer returns)
    promPushUrl,     \* promPushConf.url != ""
    onceDone,        \* sync.Once: done
    onceM,           \* sync.Once: mutex owner, "free" if none
    sdNormal,        \* isNormal argument of each thread's shutdown call
    ctxCancelled,
    exitWith,        \* argument of the pending os.Exit
    exitCode,        \* -1 while the process runs
    log,             \* records emitted through uf.Logger
    loggedErr,       \* the error handed to uf.Logger.Errorf
    cmdFqName,       \* the prefix of the two gauge names, "" before emitEndLogs
    cnt              \* how many times each step happened

vars == <<appName, cmdFqName, Commands, osArgs, isTTY, uf, world, flocks, pc, scopeErr, panicking,
          currentCmd, currentCmdLock, resourcesCloser, promPushUrl,
          onceDone, onceM, sdNormal, ctxCancelled, exitWith, exitCode,
          log, loggedErr, cnt>>

\* the lock file name: promStr(app.Name)+"-"+promStr(currentCmd)
LockKey(cmd) == promStr(appName) \o <<"-">> \o promStr(cmd)

\* cmdFqName := promStr(uf.AppConfig.Name + "_" + currentCmd)
MetricToken(cmd) == promStr(appName \o <<"_">> \o cmd)

Steps == {"lock", "begin", "ginit", "body", "errlog", "emit", "finish",
          "push", "bs", "cancel", "closer", "sleep"}

Bump(p, s) == [cnt EXCEPT ![p][s] = @ + 1]
Logged(p, r) == [log EXCEPT ![p] = @ \cup {r}]


\* ------------------------------------------------------------ initial
\* The surroundings of a process: in world "any" the configuration file
\* may fail to load and may name a push URL, the lock directory may fail,
\* the command may fail or panic and a signal may arrive; in world "cron"
\* none of that happens.
TomlResults(w) == IF w = "any" THEN BOOLEAN ELSE {TRUE}
UrlChoices(w) == IF w = "any" THEN BOOLEAN ELSE {FALSE}
LockIOErrors(w) == IF w = "any" THEN {MkErr("lock", FALSE)} ELSE {}
BodyResults(w) ==
    IF w = "any" THEN {NoErr, MkErr("cmd", FALSE), MkErr("cmd", TRUE)} ELSE {NoErr}
BodyPanics(w) == IF w = "any" THEN BOOLEAN ELSE {}
SignalsArrive(w) == w = "any"

UfConfigs == [BeforeShutdown : BOOLEAN, GlobalInit : BOOLEAN]
NoHooks == [BeforeShutdown |-> FALSE, GlobalInit |-> FALSE]
AllHooks == [BeforeShutdown |-> TRUE, GlobalInit |-> TRUE]

\* every process at the entry of RunAndExit, its signal goroutine started
InitRuns(launched) ==
    /\ flocks = {}
    /\ pc = [p \in Procs |-> IF p \in launched
                             THEN [main |-> "run", sig |-> "wait"]
                             ELSE [main |-> "off", sig |-> "off"]]
    /\ scopeErr = [p \in Procs |-> NoErr]
    /\ panicking = [p \in Procs |-> [on |-> FALSE, bodyErr |-> FALSE]]
    /\ currentCmd = [p \in Procs |-> sEmpty]
    /\ currentCmdLock = [p \in Procs |-> "nil"]
    /\ resourcesCloser = [p \in Procs |-> "nil"]
    /\ promPushUrl = [p \in Procs |-> FALSE]
    /\ onceDone = [p \in Procs |-> FALSE]
    /\ onceM = [p \in Procs |-> "free"]
    /\ sdNormal = [p \in Procs |-> [main |-> FALSE, sig |-> FALSE]]
    /\ ctxCancelled = [p \in Procs |-> FALSE]
    /\ exitWith = [p \in Procs |-> -1]
    /\ exitCode = [p \in Procs |-> -1]
    /\ log = [p \in Procs |-> {}]
    /\ loggedErr = [p \in Procs |-> NoErr]
    /\ cmdFqName = [p \in Procs |-> sEmpty]
    /\ cnt = [p \in Procs |-> [s \in Steps |-> 0]]

\* Process 1 gets the arguments, terminal and hooks given; the other
\* processes are further runs of the same application as a cron job
\* starts them: the command "run", no hooks, stderr not a terminal, world
\* "cron".
InitInputs(argLists, hooks) ==
    /\ osArgs \in {[p \in Procs |-> IF p = 1 THEN a ELSE <<sRun>>] : a \in argLists}
    /\ isTTY \in {[p \in Procs |-> IF p = 1 THEN b ELSE FALSE] : b \in BOOLEAN}
    /\ uf \in {[p \in Procs |-> IF p = 1 THEN h ELSE NoHooks] : h \in hooks}
    /\ world = [p \in Procs |-> IF p = 1 THEN "any" ELSE "cron"]

\* One run alone on the host, started with any short argument list, any
\* terminal and any hooks, in world "any".
Init ==
    /\ appName = AppName
    /\ Commands \in CommandSets
    /\ InitInputs(ArgLists(ArgTokens, MaxArgs), UfConfigs)
    /\ InitRuns({1})

\* One run alone on the host, with both hooks set, started with longer
\* argument lists over more registered commands.
InitArgs ==
    /\ appName = AppName
    /\ Commands \in CommandSetsWide
    /\ InitInputs(ArgLists(ArgTokensWide, MaxArgsWide), {AllHooks})
    /\ InitRuns({1})

\* Several runs on one host: process 1, with both hooks set and any
\* terminal, is started with the alias "r" of the command "run" in world
\* "any", beside the cron runs of that command.
InitHost ==
    /\ appName = AppName
    /\ Commands = <<runCmd, helpCmd>>
    /\ InitInputs({<<sR>>}, {AllHooks})
    /\ InitRuns(Procs)

\* One run alone on the host of an application with any of the names
\* above and a single command of any short name, started with that name.
InitNames ==
    /\ appName \in AppNames
    /\ \E n \in ShortNames :
          /\ Commands = <<[Name |-> n, Aliases |-> << >>]>>
          /\ InitInputs({<<n>>}, {AllHooks})
    /\ InitRuns({1})

Alive(p) == exitCode[p] = -1

\* the engine's return: scopeErr = (&app).RunContext(ctx, os.Args), after
\* which the function ends and the deferred epilogue runs
EngineReturns(p, err) ==
    /\ scopeErr' = [scopeErr EXCEPT ![p] = err]
    /\ pc' = [pc EXCEPT ![p].main = "epilogue"]

\* a panic unwinds RunContext: the assignment to scopeErr never happens
EnginePanics(p, withErr) ==
    /\ panicking' = [panicking EXCEPT ![p] = [on |-> TRUE, bodyErr |-> withErr]]
    /\ pc' = [pc EXCEPT ![p].main = "epilogue"]
    /\ UNCHANGED scopeErr

\* ------------------------------------------------------------ the engine
\* RunContext returns without calling app.Before (flag parsing failed, or
\* the engine rendered top-level help itself).
EngineSkipsBefore(p) ==
    /\ pc[p].main = "run"
    /\ world[p] = "any"
    /\ \E err \in {NoErr, MkErr("engine", FALSE)} : EngineReturns(p, err)
    /\ UNCHANGED <<appName, cmdFqName, Commands, osArgs, isTTY, uf, world, flocks, panicking, currentCmd,
                   currentCmdLock, resourcesCloser, promPushUrl, onceDone, onceM,
                   sdNormal, ctxCancelled, exitWith, exitCode, log, loggedErr, cnt>>

\* fslock.Lock(os.TempDir(), key): LockedError while another process holds
\* the file, else the handle; any other failure is an I/O error.
FsLockResults(key, w) ==
    IF \E l \in flocks : l.key = key
    THEN {MkErr("lock", TRUE)}
    ELSE {NoErr} \cup LockIOErrors(w)

LockFailedIgnored(err) == FALSE

\* `err != nil` after fslock.Lock
LockFailed(err) == err # NoErr

\* app.Before up to and including the BEGIN record
BeforeHook(p) ==
    /\ pc[p].main = "run"
    /\ \E tomlOk \in TomlResults(world[p]), url \in UrlChoices(world[p]) :
         IF ~tomlOk
         THEN /\ EngineReturns(p, WrErr(MkErr("conf", FALSE)))
              /\ UNCHANGED <<flocks, currentCmd, currentCmdLock, promPushUrl, log, cnt>>
         ELSE LET id == IdentifyCmd(Commands, osArgs[p]) IN
              /\ promPushUrl' = [promPushUrl EXCEPT ![p] = url]
              /\ currentCmd' = [currentCmd EXCEPT ![p] = id.cmd]
              /\ IF ~id.proceed
                 THEN /\ pc' = [pc EXCEPT ![p].main = "body"]
                      /\ UNCHANGED <<flocks, currentCmdLock, scopeErr, log, cnt>>
                 ELSE \E err \in FsLockResults(LockKey(id.cmd), world[p]) :
                        IF LockFailed(err)
                        THEN /\ EngineReturns(p, err)
                             /\ cnt' = Bump(p, "lock")
                             /\ UNCHANGED <<flocks, currentCmdLock, log>>
                        ELSE /\ flocks' = flocks \cup {[key |-> LockKey(id.cmd), owner |-> p]}
                             /\ currentCmdLock' = [currentCmdLock EXCEPT ![p] = "held"]
                             /\ log' = Logged(p, "BEGIN")
                             /\ cnt' = [cnt EXCEPT ![p]["lock"] = @ + 1, ![p]["begin"] = @ + 1]
                             /\ pc' = [pc EXCEPT ![p].main = "ginit"]
                             /\ UNCHANGED scopeErr
    /\ UNCHANGED <<appName, cmdFqName, Commands, osArgs, isTTY, uf, world, panicking, resourcesCloser,
                   onceDone, onceM, sdNormal, ctxCancelled, exitWith, exitCode, loggedErr>>

\* what uf.GlobalInit may return: (resourceCloser, err)
GlobalInitResults ==
    [closer : {"nil", "ok", "err"}, err : {NoErr, MkErr("init", FALSE)}]

\* `if uf.GlobalInit != nil { resourcesCloser, err = uf.GlobalInit(cctx, uf) }`
\* and `return cmn.WrErr(err)`
GlobalInitCall(p) ==
    /\ pc[p].main = "ginit"
    /\ IF ~uf[p].GlobalInit
       THEN /\ pc' = [pc EXCEPT ![p].main = "body"]
            /\ UNCHANGED <<resourcesCloser, scopeErr, cnt>>
       ELSE \E r \in GlobalInitResults :
              /\ resourcesCloser' = [resourcesCloser EXCEPT ![p] = r.closer]
              /\ cnt' = Bump(p, "ginit")
              /\ IF r.err = NoErr
                 THEN /\ pc' = [pc EXCEPT ![p].main = "body"]
                      /\ UNCHANGED scopeErr
                 ELSE EngineReturns(p, WrErr(r.err))
    /\ UNCHANGED <<appName, cmdFqName, Commands, osArgs, isTTY, uf, world, flocks, panicking, currentCmd,
                   currentCmdLock, promPushUrl, onceDone, onceM, sdNormal,
                   ctxCancelled, exitWith, exitCode, log, loggedErr>>

\* uf.GlobalInit panics: nothing is assigned
GlobalInitPanics(p) ==
    /\ pc[p].main = "ginit"
    /\ uf[p].GlobalInit
    /\ EnginePanics(p, FALSE)
    /\ cnt' = Bump(p, "ginit")
    /\ UNCHANGED <<appName, cmdFqName, Commands, osArgs, isTTY, uf, world, flocks, currentCmd,
                   currentCmdLock, resourcesCloser, promPushUrl, onceDone, onceM,
                   sdNormal, ctxCancelled, exitWith, exitCode, log, loggedErr>>

\* the engine runs the command (or renders help, or rejects the arguments)
\* and returns its result
CommandBody(p) ==
    /\ pc[p].main = "body"
    /\ \E err \in BodyResults(world[p]) : EngineReturns(p, err)
    /\ cnt' = Bump(p, "body")
    /\ UNCHANGED <<appName, cmdFqName, Commands, osArgs, isTTY, uf, world, flocks, panicking, currentCmd,
                   currentCmdLock, resourcesCloser, promPushUrl, onceDone, onceM,
                   sdNormal, ctxCancelled, exitWith, exitCode, log, loggedErr>>

\* the command panics, possibly after it had an error of its own at hand
\* (a `return err` followed by a panicking defer)
CommandPanics(p) ==
    /\ pc[p].main = "body"
    /\ \E withErr \in BodyPanics(world[p]) : EnginePanics(p, withErr)
    /\ cnt' = Bump(p, "body")
    /\ UNCHANGED <<appName, cmdFqName, Commands, osArgs, isTTY, uf, world, flocks, currentCmd,
                   currentCmdLock, resourcesCloser, promPushUrl, onceDone, onceM,
                   sdNormal, ctxCancelled, exitWith, exitCode, log, loggedErr>>


\* --------------------------------------------------- deferred epilogue
RecoveredDropsPanic(err, pan) == err

\* `if r := recover(); r != nil`: the panic becomes scopeErr, combined with
\* the error scopeErr already holds; %s formats the old error, it is not wrapped
Recovered(err, pan) ==
    IF ~pan.on THEN err
    ELSE [kind |-> "panic", locked |-> FALSE, prior |-> err.kind, frames |-> 0]

QuietExitAnyTerminal(err, tty) == err.locked

\* errors.As(scopeErr, new(fslock.LockedError)) && !isatty.IsTerminal(stderr)
QuietExit(err, tty) == err.locked /\ ~tty

EpilogueNextNoEndLogs(quiet) == "sd_enter"

\* the quiet branch goes straight to shutdown(true); the other two call
\* emitEndLogs first
EpilogueNext(quiet) == IF quiet THEN "sd_enter" ELSE "emit"

\* recover, classify, and log the error
Epilogue(p) ==
    /\ pc[p].main = "epilogue"
    /\ LET e == Recovered(scopeErr[p], panicking[p]) IN
       /\ scopeErr' = [scopeErr EXCEPT ![p] = e]
       /\ IF e # NoErr
          THEN IF QuietExit(e, isTTY[p])
               THEN /\ sdNormal' = [sdNormal EXCEPT ![p].main = TRUE]
                    /\ exitWith' = [exitWith EXCEPT ![p] = 1]
                    /\ pc' = [pc EXCEPT ![p].main = EpilogueNext(TRUE)]
                    /\ UNCHANGED <<log, loggedErr, cnt>>
               ELSE /\ log' = Logged(p, "ERROR")
                    /\ loggedErr' = [loggedErr EXCEPT ![p] = e]
                    /\ cnt' = Bump(p, "errlog")
                    /\ sdNormal' = [sdNormal EXCEPT ![p].main = FALSE]
                    /\ exitWith' = [exitWith EXCEPT ![p] = 1]
                    /\ pc' = [pc EXCEPT ![p].main = EpilogueNext(FALSE)]
          ELSE /\ sdNormal' = [sdNormal EXCEPT ![p].main = TRUE]
               /\ exitWith' = [exitWith EXCEPT ![p] = 0]
               /\ pc' = [pc EXCEPT ![p].main = EpilogueNext(FALSE)]
               /\ UNCHANGED <<log, loggedErr, cnt>>
    /\ UNCHANGED <<appName, cmdFqName, Commands, osArgs, isTTY, uf, world, flocks, panicking, currentCmd,
                   currentCmdLock, resourcesCloser, promPushUrl, onceDone, onceM,
                   ctxCancelled, exitCode>>

\* `if currentCmdLock == nil { return }`
EndLogsSkipped(lock) == lock = "nil"

\* emitEndLogs(wasSuccess): the FINISH record, the two gauges and the push
emitEndLogs(p) ==
    /\ pc[p].main = "emit"
    /\ pc' = [pc EXCEPT ![p].main = "sd_enter"]
    /\ cmdFqName' = IF EndLogsSkipped(currentCmdLock[p]) THEN cmdFqName
                    ELSE [cmdFqName EXCEPT ![p] = MetricToken(currentCmd[p])]
    /\ IF EndLogsSkipped(currentCmdLock[p])
       THEN /\ cnt' = Bump(p, "emit")
            /\ UNCHANGED log
       ELSE LET rec == IF exitWith[p] = 0 THEN "FINISH_info_success_1"
                       ELSE "FINISH_warn_success_0" IN
            IF promPushUrl[p]
            THEN \E pushOk \in BOOLEAN :
                   /\ log' = [log EXCEPT ![p] =
                                @ \cup {rec} \cup (IF pushOk THEN {} ELSE {"WARN_push"})]
                   /\ cnt' = [cnt EXCEPT ![p]["emit"] = @ + 1, ![p]["finish"] = @ + 1,
                                         ![p]["push"] = @ + 1]
            ELSE /\ log' = Logged(p, rec)
                 /\ cnt' = [cnt EXCEPT ![p]["emit"] = @ + 1, ![p]["finish"] = @ + 1]
    /\ UNCHANGED <<appName, Commands, osArgs, isTTY, uf, world, flocks, scopeErr, panicking,
                   currentCmd, currentCmdLock, resourcesCloser, promPushUrl,
                   onceDone, onceM, sdNormal, ctxCancelled, exitWith, exitCode,
                   loggedErr>>

\* ------------------------------------------------- the shutdown closure
\* where a thread continues once shutdown(isNormal) has returned
AfterShutdown(t) == IF t = "main" THEN "exit" ELSE "returned"

OnceMayRunAgain(done) == TRUE

\* sync.Once: the function runs only in the first call
OnceMayRun(done) == ~done

OnceDoNoWait(p, t) ==
    /\ pc[p][t] = "sd_enter"
    /\ IF OnceMayRun(onceDone[p]) /\ onceM[p] = "free"
       THEN /\ onceM' = [onceM EXCEPT ![p] = t]
            /\ pc' = [pc EXCEPT ![p][t] = "sd_bs"]
       ELSE /\ pc' = [pc EXCEPT ![p][t] = AfterShutdown(t)]
            /\ UNCHANGED onceM
    /\ UNCHANGED <<appName, cmdFqName, Commands, osArgs, isTTY, uf, world, flocks,
                   scopeErr, panicking, currentCmd, currentCmdLock, resourcesCloser,
                   promPushUrl, onceDone, sdNormal, ctxCancelled, exitWith, exitCode,
                   log, loggedErr, cnt>>

\* o.Do(func() {...}): a caller waits while another one is inside
OnceDo(p, t) ==
    /\ pc[p][t] = "sd_enter"
    /\ onceM[p] = "free"
    /\ IF OnceMayRun(onceDone[p])
       THEN /\ onceM' = [onceM EXCEPT ![p] = t]
            /\ pc' = [pc EXCEPT ![p][t] = "sd_bs"]
       ELSE /\ pc' = [pc EXCEPT ![p][t] = AfterShutdown(t)]
            /\ UNCHANGED onceM
    /\ UNCHANGED <<appName, cmdFqName, Commands, osArgs, isTTY, uf, world, flocks, scopeErr, panicking,
                   currentCmd, currentCmdLock, resourcesCloser, promPushUrl,
                   onceDone, sdNormal, ctxCancelled, exitWith, exitCode, log,
                   loggedErr, cnt>>

SdBeforeShutdownFailureAborts(p, t) ==
    /\ pc[p][t] = "sd_bs"
    /\ IF uf[p].BeforeShutdown
       THEN \E failed \in BOOLEAN :
              /\ cnt' = Bump(p, "bs")
              /\ log' = IF failed THEN Logged(p, "WARN_before_shutdown") ELSE log
              /\ pc' = [pc EXCEPT ![p][t] = IF failed THEN "sd_ret" ELSE "sd_cancel"]
       ELSE /\ pc' = [pc EXCEPT ![p][t] = "sd_cancel"]
            /\ UNCHANGED <<cnt, log>>
    /\ UNCHANGED <<appName, cmdFqName, Commands, osArgs, isTTY, uf, world, flocks, scopeErr, panicking,
                   currentCmd, currentCmdLock, resourcesCloser, promPushUrl,
                   onceDone, onceM, sdNormal, ctxCancelled, exitWith, exitCode,
                   loggedErr>>

SdBeforeShutdownAfterCancel(p, t) ==
    /\ pc[p][t] = "sd_bs"
    /\ pc' = [pc EXCEPT ![p][t] = "sd_closer"]
    /\ ctxCancelled' = [ctxCancelled EXCEPT ![p] = TRUE]
    /\ cnt' = Bump(p, "cancel")
    /\ UNCHANGED <<appName, cmdFqName, Commands, osArgs, isTTY, uf, world, flocks, scopeErr, panicking,
                   currentCmd, currentCmdLock, resourcesCloser, promPushUrl,
                   onceDone, onceM, sdNormal, exitWith, exitCode, log, loggedErr>>

\* `if uf.BeforeShutdown != nil { if err := uf.BeforeShutdown(); ... Warnf }`
SdBeforeShutdown(p, t) ==
    /\ pc[p][t] = "sd_bs"
    /\ pc' = [pc EXCEPT ![p][t] = "sd_cancel"]
    /\ IF uf[p].BeforeShutdown
       THEN \E failed \in BOOLEAN :
              /\ cnt' = Bump(p, "bs")
              /\ log' = IF failed THEN Logged(p, "WARN_before_shutdown") ELSE log
       ELSE UNCHANGED <<cnt, log>>
    /\ UNCHANGED <<appName, cmdFqName, Commands, osArgs, isTTY, uf, world, flocks, scopeErr, panicking,
                   currentCmd, currentCmdLock, resourcesCloser, promPushUrl,
                   onceDone, onceM, sdNormal, ctxCancelled, exitWith, exitCode,
                   loggedErr>>

\* topCtxShutdown()
SdCancel(p, t) ==
    /\ pc[p][t] = "sd_cancel"
    /\ pc' = [pc EXCEPT ![p][t] = "sd_closer"]
    /\ ctxCancelled' = [ctxCancelled EXCEPT ![p] = TRUE]
    /\ cnt' = Bump(p, "cancel")
    /\ UNCHANGED <<appName, cmdFqName, Commands, osArgs, isTTY, uf, world, flocks, scopeErr, panicking,
                   currentCmd, currentCmdLock, resourcesCloser, promPushUrl,
                   onceDone, onceM, sdNormal, exitWith, exitCode, log, loggedErr>>

\* the value of resourcesCloser a thread reads: the main path wrote it itself;
\* the signal goroutine reads it with no synchronisation after the write and
\* may still see nil
CloserSeenBy(p, t) ==
    IF t = "main" THEN {resourcesCloser[p]} ELSE {resourcesCloser[p], "nil"}

SdCloserClosesLock(p, t) ==
    /\ pc[p][t] = "sd_closer"
    /\ pc' = [pc EXCEPT ![p][t] = "sd_sleep"]
    /\ flocks' = {l \in flocks : l.owner # p}
    /\ UNCHANGED <<appName, cmdFqName, Commands, osArgs, isTTY, uf, world, scopeErr, panicking,
                   currentCmd, currentCmdLock, resourcesCloser, promPushUrl,
                   onceDone, onceM, sdNormal, ctxCancelled, exitWith, exitCode,
                   log, loggedErr, cnt>>

\* `if resourcesCloser != nil { if err := resourcesCloser(); ... Warnf }`
SdCloser(p, t) ==
    /\ pc[p][t] = "sd_closer"
    /\ pc' = [pc EXCEPT ![p][t] = "sd_sleep"]
    /\ \E seen \in CloserSeenBy(p, t) :
         IF seen # "nil"
         THEN /\ cnt' = Bump(p, "closer")
              /\ log' = IF seen = "err" THEN Logged(p, "WARN_after_shutdown") ELSE log
         ELSE UNCHANGED <<cnt, log>>
    /\ UNCHANGED <<appName, cmdFqName, Commands, osArgs, isTTY, uf, world, flocks, scopeErr, panicking,
                   currentCmd, currentCmdLock, resourcesCloser, promPushUrl,
                   onceDone, onceM, sdNormal, ctxCancelled, exitWith, exitCode,
                   loggedErr>>

SdSleepAlways(p, t) ==
    /\ pc[p][t] = "sd_sleep"
    /\ pc' = [pc EXCEPT ![p][t] = "sd_ret"]
    /\ cnt' = Bump(p, "sleep")
    /\ UNCHANGED <<appName, cmdFqName, Commands, osArgs, isTTY, uf, world, flocks, scopeErr, panicking,
                   currentCmd, currentCmdLock, resourcesCloser, promPushUrl,
                   onceDone, onceM, sdNormal, ctxCancelled, exitWith, exitCode,
                   log, loggedErr>>

\* `if !isNormal { time.Sleep(250 * time.Millisecond) }`
SdSleep(p, t) ==
    /\ pc[p][t] = "sd_sleep"
    /\ pc' = [pc EXCEPT ![p][t] = "sd_ret"]
    /\ cnt' = IF sdNormal[p][t] THEN cnt ELSE Bump(p, "sleep")
    /\ UNCHANGED <<appName, cmdFqName, Commands, osArgs, isTTY, uf, world, flocks, scopeErr, panicking,
                   currentCmd, currentCmdLock, resourcesCloser, promPushUrl,
                   onceDone, onceM, sdNormal, ctxCancelled, exitWith, exitCode,
                   log, loggedErr>>

\* the function of o.Do returns: done is set and the waiting callers go on
OnceReturn(p, t) ==
    /\ pc[p][t] = "sd_ret"
    /\ pc' = [pc EXCEPT ![p][t] = AfterShutdown(t)]
    /\ onceDone' = [onceDone EXCEPT ![p] = TRUE]
    /\ onceM' = [onceM EXCEPT ![p] = "free"]
    /\ UNCHANGED <<appName, cmdFqName, Commands, osArgs, isTTY, uf, world, flocks, scopeErr, panicking,
                   currentCmd, currentCmdLock, resourcesCloser, promPushUrl,
                   sdNormal, ctxCancelled, exitWith, exitCode, log, loggedErr, cnt>>

\* ------------------------------------------------ the signal goroutine
SignalReceivedExits(p) ==
    /\ pc[p].sig = "wait"
    /\ SignalsArrive(world[p])
    /\ pc' = [pc EXCEPT ![p] = [main |-> "exited", sig |-> "dead"]]
    /\ log' = Logged(p, "WARN_signal")
    /\ exitCode' = [exitCode EXCEPT ![p] = 1]
    /\ flocks' = {l \in flocks : l.owner # p}
    /\ UNCHANGED <<appName, cmdFqName, Commands, osArgs, isTTY, uf, world, scopeErr,
                   panicking, currentCmd, currentCmdLock, resourcesCloser,
                   promPushUrl, onceDone, onceM, sdNormal, ctxCancelled, exitWith,
                   loggedErr, cnt>>

\* `<-sigs`, the warning, shutdown(false)
SignalReceived(p) ==
    /\ pc[p].sig = "wait"
    /\ SignalsArrive(world[p])
    /\ pc' = [pc EXCEPT ![p].sig = "sd_enter"]
    /\ log' = Logged(p, "WARN_signal")
    /\ UNCHANGED <<appName, cmdFqName, Commands, osArgs, isTTY, uf, world, flocks, scopeErr, panicking,
                   currentCmd, currentCmdLock, resourcesCloser, promPushUrl,
                   onceDone, onceM, sdNormal, ctxCancelled, exitWith, exitCode,
                   loggedErr, cnt>>

\* os.Exit(code): the process is gone, its goroutines with it, and the
\* operating system drops the lock files it held
osExit(p) ==
    /\ pc[p].main = "exit"
    /\ pc' = [pc EXCEPT ![p] = [main |-> "exited", sig |-> "dead"]]
    /\ exitCode' = [exitCode EXCEPT ![p] = exitWith[p]]
    /\ flocks' = {l \in flocks : l.owner # p}
    /\ UNCHANGED <<appName, cmdFqName, Commands, osArgs, isTTY, uf, world, scopeErr, panicking,
                   currentCmd, currentCmdLock, resourcesCloser, promPushUrl,
                   onceDone, onceM, sdNormal, ctxCancelled, exitWith, log,
                   loggedErr, cnt>>

Next ==
    \E p \in Procs :
        \/ EngineSkipsBefore(p)
        \/ BeforeHook(p)
        \/ GlobalInitCall(p)
        \/ GlobalInitPanics(p)
        \/ CommandBody(p)
        \/ CommandPanics(p)
        \/ Epilogue(p)
        \/ emitEndLogs(p)
        \/ SignalReceived(p)
        \/ osExit(p)
        \/ \E t \in Threads :
             \/ OnceDo(p, t)
             \/ SdBeforeShutdown(p, t)
             \/ SdCancel(p, t)
             \/ SdCloser(p, t)
             \/ SdSleep(p, t)
             \/ OnceReturn(p, t)

Spec == Init /\ [][Next]_vars

SpecArgs == InitArgs /\ [][Next]_vars

SpecHost == InitHost /\ [][Next]_vars

SpecNames == InitNames /\ [][Next]_vars

\* every step of process p but the arrival of a signal: the goroutines of a
\* process keep being scheduled, the hooks and the push return, and the
\* engine returns or panics
ProgramStep(p) ==
    \/ EngineSkipsBefore(p)
    \/ BeforeHook(p)
    \/ GlobalInitCall(p)
    \/ GlobalInitPanics(p)
    \/ CommandBody(p)
    \/ CommandPanics(p)
    \/ Epilogue(p)
    \/ emitEndLogs(p)
    \/ osExit(p)
    \/ \E t \in Threads :
         \/ OnceDo(p, t)
         \/ SdBeforeShutdown(p, t)
         \/ SdCancel(p, t)
         \/ SdCloser(p, t)
         \/ SdSleep(p, t)
         \/ OnceReturn(p, t)

SpecFair == Init /\ [][Next]_vars /\ \A p \in Procs : WF_vars(ProgramStep(p))


\* =====================================================================
\* Properties
\* =====================================================================
Exited(p) == exitCode[p] # -1
ShutdownBodyPcs == {"sd_bs", "sd_cancel", "sd_closer", "sd_sleep", "sd_ret"}
InShutdownBody(p, t) == pc[p][t] \in ShutdownBodyPcs
LockedErr == MkErr("lock", TRUE)
OwnsLockFile(p) == \E l \in flocks : l.owner = p

\* between its BEGIN record and its exit
HoldsInstanceLock(p) == "BEGIN" \in log[p] /\ ~Exited(p)

C1_Mutex ==
    \A p, q \in Procs :
        (p # q /\ HoldsInstanceLock(p) /\ HoldsInstanceLock(q))
            => LockKey(currentCmd[p]) # LockKey(currentCmd[q])

\* a step in which process p attempts the lock: it fails with LockedError,
\* in that very step, if and only if another process holds the same key
C1_Attempt ==
    \A p \in Procs :
        cnt'[p]["lock"] = cnt[p]["lock"] + 1 =>
            LET key == LockKey(currentCmd'[p])
                held == \E q \in Procs \ {p} :
                            HoldsInstanceLock(q) /\ LockKey(currentCmd[q]) = key
            IN /\ held => (scopeErr'[p] = LockedErr /\ pc'[p].main = "epilogue"
                              /\ "BEGIN" \notin log'[p])
               /\ ~held => scopeErr'[p] # LockedErr

\* C1: at most one of the processes resolving the same command is between
\* its BEGIN record and its exit; an attempt made while the lock is held
\* fails in the same step with LockedError, and an attempt made when no
\* running process holds it never fails with LockedError.
C1_InstanceLock == [][C1_Attempt /\ C1_Mutex']_vars

\* one process failed with LockedError while the other held the lock
C1_Witness ==
    \E p, q \in Procs :
        /\ p # q
        /\ HoldsInstanceLock(q)
        /\ scopeErr[p] = LockedErr
        /\ LockKey(currentCmd[p]) = LockKey(currentCmd[q])

\* C2: the body of the shutdown closure runs exactly once per run: no step
\* of it happens twice, the two threads are never inside it together, and
\* at exit BeforeShutdown (when set) and the cancellation happened once.
C2_ShutdownOnce ==
    \A p \in Procs :
        /\ cnt[p]["bs"] <= 1 /\ cnt[p]["cancel"] <= 1
        /\ cnt[p]["closer"] <= 1 /\ cnt[p]["sleep"] <= 1
        /\ ~(InShutdownBody(p, "main") /\ InShutdownBody(p, "sig"))
        /\ (onceDone[p] \/ Exited(p)) =>
              /\ cnt[p]["cancel"] = 1
              /\ cnt[p]["bs"] = IF uf[p].BeforeShutdown THEN 1 ELSE 0

\* both call sites called shutdown and both calls have returned
C2_Witness ==
    \E p \in Procs :
        /\ pc[p].sig = "returned" /\ pc[p].main = "exit"
        /\ cnt[p]["bs"] = 1 /\ cnt[p]["cancel"] = 1

\* C3: inside the shutdown closure BeforeShutdown has returned before the
\* context is cancelled, the context is cancelled before the closer is
\* called, and the grace delay comes after all of them.
C3_ShutdownOrder ==
    \A p \in Procs :
        /\ cnt[p]["cancel"] >= 1 => (uf[p].BeforeShutdown => cnt[p]["bs"] = 1)
        /\ cnt[p]["cancel"] = 0 => ~ctxCancelled[p]
        /\ cnt[p]["closer"] >= 1 => (ctxCancelled[p] /\ cnt[p]["cancel"] = 1)
        /\ \A t \in Threads :
              /\ pc[p][t] \in {"sd_closer", "sd_sleep", "sd_ret"} => ctxCancelled[p]
              /\ pc[p][t] \in {"sd_bs", "sd_cancel"} =>
                    (cnt[p]["closer"] = 0 /\ cnt[p]["sleep"] = 0 /\ ~ctxCancelled[p])
              /\ pc[p][t] = "sd_closer" => cnt[p]["sleep"] = 0
              /\ pc[p][t] = "sd_cancel" => (uf[p].BeforeShutdown => cnt[p]["bs"] = 1)

\* a signal-triggered shutdown that ran all four steps
C3_Witness ==
    \E p \in Procs :
        /\ pc[p].sig = "sd_ret"
        /\ cnt[p]["bs"] = 1 /\ cnt[p]["cancel"] = 1
        /\ cnt[p]["closer"] = 1 /\ cnt[p]["sleep"] = 1

\* the epilogue took the quiet branch: exit code 1 chosen, nothing logged
TookQuietBranch(p) == exitWith[p] = 1 /\ cnt[p]["errlog"] = 0

\* C4 as stated: no step of the shutdown body happens before emitEndLogs
\* was invoked, except on the quiet lock-failure path.
C4_Original ==
    \A p \in Procs :
        (cnt[p]["bs"] + cnt[p]["cancel"] + cnt[p]["closer"] >= 1)
            => (cnt[p]["emit"] = 1 \/ TookQuietBranch(p))

\* C4 amended: the main path invokes emitEndLogs exactly once before it
\* calls shutdown and exits, unless the epilogue took its quiet branch; a
\* step of the shutdown body that precedes emitEndLogs was run by the
\* signal goroutine.
C4_MainPathOrder ==
    \A p \in Procs :
        /\ cnt[p]["emit"] <= 1
        /\ pc[p].main \in (ShutdownBodyPcs \cup {"sd_enter", "exit", "exited"})
              => (cnt[p]["emit"] = 1 \/ TookQuietBranch(p))
        /\ TookQuietBranch(p) => cnt[p]["emit"] = 0
        /\ Exited(p) => (onceDone[p] /\ cnt[p]["cancel"] = 1)
        /\ (cnt[p]["cancel"] >= 1 /\ cnt[p]["emit"] = 0 /\ ~TookQuietBranch(p))
              => "WARN_signal" \in log[p]

\* a signalled run: the body of shutdown ran first, the FINISH record came
\* after it, then the exit
C4_Witness ==
    \E p \in Procs :
        /\ Exited(p) /\ "WARN_signal" \in log[p]
        /\ cnt[p]["finish"] = 1 /\ cnt[p]["sleep"] = 1

\* C5: the exit code is 0 exactly when the engine returned nil and nothing
\* panicked, and 1 in every other case.
C5_ExitCode ==
    \A p \in Procs :
        Exited(p) =>
            /\ exitCode[p] \in {0, 1}
            /\ exitCode[p] = 0 <=> (scopeErr[p] = NoErr /\ ~panicking[p].on)
            /\ exitCode[p] = 1 <=>
                  (panicking[p].on \/ scopeErr[p].kind \in {"conf", "lock", "init", "cmd", "engine"})

\* one run exited 0 and another one 1
C5_Witness ==
    \E p, q \in Procs :
        /\ exitCode[p] = 0 /\ scopeErr[p] = NoErr
        /\ exitCode[q] = 1 /\ panicking[q].on

\* C6: a run whose lock attempt failed with LockedError emits no BEGIN and
\* never calls GlobalInit; with stderr not a terminal it logs no error and
\* records no outcome; with stderr a terminal it logs the error; it exits 1.
C6_QuietLockFailure ==
    \A p \in Procs :
        (scopeErr[p] = LockedErr /\ pc[p].main # "epilogue") =>
            /\ "BEGIN" \notin log[p] /\ cnt[p]["begin"] = 0
            /\ cnt[p]["ginit"] = 0 /\ cnt[p]["body"] = 0
            /\ cnt[p]["finish"] = 0 /\ cnt[p]["push"] = 0
            /\ exitWith[p] = 1
            /\ Exited(p) => exitCode[p] = 1
            /\ ~isTTY[p] => ("ERROR" \notin log[p] /\ cnt[p]["emit"] = 0)
            /\ isTTY[p] => ("ERROR" \in log[p] /\ loggedErr[p] = LockedErr)

\* a run that found the lock held, with stderr not a terminal, has exited
C6_Witness ==
    \E p \in Procs : Exited(p) /\ scopeErr[p] = LockedErr /\ ~isTTY[p]

\* C7 as stated: once the shutdown sequence is over, the run no longer
\* holds its lock file.
C7_Original ==
    \A p \in Procs : (onceDone[p] /\ ~Exited(p)) => ~OwnsLockFile(p)

\* C7 amended: the lock file is held from its acquisition until the
\* process exits, through the shutdown sequence and after it; nothing in
\* the run releases it, the exit of the process does; a run that did not
\* acquire it never owns it.
C7_LockHeldUntilExit ==
    \A p \in Procs :
        /\ (currentCmdLock[p] = "held" /\ ~Exited(p)) =>
              [key |-> LockKey(currentCmd[p]), owner |-> p] \in flocks
        /\ currentCmdLock[p] = "nil" => ~OwnsLockFile(p)
        /\ Exited(p) => ~OwnsLockFile(p)

\* shutdown is over and the run still owns its lock file
C7_Witness ==
    \E p \in Procs : onceDone[p] /\ pc[p].main = "exit" /\ OwnsLockFile(p)

\* the arguments begin with a help flag and name a command further on
HelpFirstThenCommand(args) ==
    /\ Len(args) >= 2
    /\ args[1] \in {sDashH, sDashDashHelp}
    /\ \E i \in 2..Len(args) : args[i] \in DOMAIN CmdNames(Commands)

\* C8: with a help flag first and a command named later, the lock is never
\* attempted, no BEGIN is logged, GlobalInit is not called and no FINISH
\* record or push is produced.
C8_HelpFirst ==
    \A p \in Procs :
        HelpFirstThenCommand(osArgs[p]) =>
            /\ cnt[p]["lock"] = 0 /\ ~OwnsLockFile(p) /\ currentCmdLock[p] = "nil"
            /\ "BEGIN" \notin log[p] /\ cnt[p]["ginit"] = 0
            /\ cnt[p]["finish"] = 0 /\ cnt[p]["push"] = 0

\* such a run went through the hook and the command and has exited
C8_Witness ==
    \E p \in Procs :
        /\ HelpFirstThenCommand(osArgs[p]) /\ osArgs[p][1] = sDashDashHelp
        /\ Exited(p) /\ cnt[p]["body"] = 1

NoHelpFlag(args) == \A i \in DOMAIN args : args[i] \notin {sDashH, sDashDashHelp}
NoArgMatches(args) == \A i \in DOMAIN args : args[i] \notin DOMAIN CmdNames(Commands)
NoCommands == DOMAIN CmdNames(Commands) = {}

\* C9 as stated: when the hook has returned nil for arguments without a
\* help flag, and no argument matches or no command is registered, the
\* lock is keyed by "Action", BEGIN is logged and FINISH is logged at exit.
C9_Original ==
    \A p \in Procs :
        (cnt[p]["body"] >= 1 /\ NoHelpFlag(osArgs[p])
             /\ (NoCommands \/ NoArgMatches(osArgs[p]))) =>
            /\ currentCmd[p] = sAction
            /\ "BEGIN" \in log[p]
            /\ Exited(p) => cnt[p]["finish"] = 1

\* C9 amended: only with no command registered is the lock keyed by
\* "Action", BEGIN logged and FINISH logged at exit (unless the epilogue
\* takes its quiet branch); with commands registered and no argument
\* matching, currentCmd stays empty and there is no lock, BEGIN or FINISH.
C9_ActionSentinel ==
    \A p \in Procs :
        (cnt[p]["body"] >= 1 /\ NoHelpFlag(osArgs[p])) =>
            /\ NoCommands =>
                  /\ currentCmd[p] = sAction
                  /\ "BEGIN" \in log[p] /\ cnt[p]["lock"] = 1
                  /\ ~Exited(p) =>
                        [key |-> LockKey(sAction), owner |-> p] \in flocks
                  /\ Exited(p) => (cnt[p]["finish"] = 1 \/ TookQuietBranch(p))
            /\ (~NoCommands /\ NoArgMatches(osArgs[p])) =>
                  /\ currentCmd[p] = sEmpty
                  /\ cnt[p]["lock"] = 0 /\ ~OwnsLockFile(p)
                  /\ "BEGIN" \notin log[p] /\ cnt[p]["finish"] = 0

\* a run of an application without commands has exited with its FINISH
C9_Witness ==
    \E p \in Procs :
        /\ NoCommands /\ osArgs[p] = <<sZ>>
        /\ Exited(p) /\ currentCmd[p] = sAction /\ cnt[p]["finish"] = 1

\* C10 as stated: when the command panicked with an error of its own at
\* hand, the logged error carries both the error and the panic.
C10_Original ==
    \A p \in Procs :
        (panicking[p].on /\ panicking[p].bodyErr /\ "ERROR" \in log[p]) =>
            (loggedErr[p].kind = "panic" /\ loggedErr[p].prior # "nil")

\* the main path has gone through emitEndLogs with the lock in hand
FinishRecorded(p) == cnt[p]["finish"] = 1
EngineFailed(p) == scopeErr[p] # NoErr
BestEffortWarnings == {"WARN_before_shutdown", "WARN_after_shutdown", "WARN_push"}

\* C11: the exit code and the success flag of the FINISH record are a
\* function of the engine's result alone, so two runs that differ only in
\* whether BeforeShutdown, the resource-closer or the metrics push failed
\* agree on both; such a failure leaves nothing but a warning record, and
\* after a failing BeforeShutdown the context is still cancelled and the
\* closer step is still taken.
C11_BestEffort ==
    \A p \in Procs :
        /\ Exited(p) => (exitCode[p] = IF EngineFailed(p) THEN 1 ELSE 0)
        /\ FinishRecorded(p) =>
              /\ pc[p].main # "epilogue"
              /\ "FINISH_info_success_1" \in log[p] <=> ~EngineFailed(p)
              /\ "FINISH_warn_success_0" \in log[p] <=> EngineFailed(p)
        /\ "WARN_before_shutdown" \in log[p] =>
              \/ \E t \in Threads : pc[p][t] = "sd_cancel"
              \/ /\ ctxCancelled[p] /\ cnt[p]["cancel"] = 1
                 /\ \/ \E t \in Threads : pc[p][t] = "sd_closer"
                    \/ \E t \in Threads : pc[p][t] \in {"sd_sleep", "sd_ret"}
                    \/ onceDone[p]
        /\ cnt[p]["bs"] <= 1 /\ cnt[p]["push"] <= 1 /\ cnt[p]["closer"] <= 1

\* a successful run in which all three best-effort steps failed
C11_Witness ==
    \E p \in Procs :
        /\ Exited(p) /\ exitCode[p] = 0
        /\ BestEffortWarnings \subseteq log[p]
        /\ "FINISH_info_success_1" \in log[p]
        /\ cnt[p]["closer"] = 1

\* C12: a run in which GlobalInit returned a resource-closer has executed
\* it exactly once by the time the process exits.
C12_Original ==
    \A p \in Procs :
        (Exited(p) /\ resourcesCloser[p] # "nil") => cnt[p]["closer"] = 1

\* app.Before got as far as the command identification and past it
Identified(p) ==
    cnt[p]["lock"] >= 1 \/ pc[p].main = "body" \/ cnt[p]["body"] >= 1
Matches(a) == a \in DOMAIN CmdNames(Commands)
HasMatch(args) == \E i \in DOMAIN args : Matches(args[i])
FirstMatch(args) ==
    CHOOSE i \in DOMAIN args : Matches(args[i]) /\ \A j \in 1..(i - 1) : ~Matches(args[j])
Canonical(a) == CmdNames(Commands)[a]
HelpBeforeAnyMatch(args) ==
    \E i \in DOMAIN args :
        /\ args[i] \in {sDashH, sDashDashHelp}
        /\ \A j \in 1..(i - 1) : ~Matches(args[j])
LockAttemptedFor(p, name) ==
    /\ cnt[p]["lock"] = 1
    /\ currentCmd[p] = name
    /\ (currentCmdLock[p] = "held" /\ Alive(p)) =>
           [key |-> LockKey(name), owner |-> p] \in flocks

\* C13 as stated: help is requested exactly when a help flag precedes every
\* matching argument; otherwise the first matching argument decides.
C13_Original ==
    \A p \in Procs :
        (Identified(p) /\ HasMatch(osArgs[p])) =>
            IF HelpBeforeAnyMatch(osArgs[p])
            THEN cnt[p]["lock"] = 0
            ELSE LockAttemptedFor(p, Canonical(osArgs[p][FirstMatch(osArgs[p])]))

\* C13: a help flag anywhere in the arguments, before or after a command
\* token, makes the run a help run that takes no lock; with no help flag the
\* command is the canonical name of the first argument that is a registered
\* name or alias (the command "help" excluded), later matches never
\* override it, and an alias yields the same name and lock key as the
\* canonical name.
C13_FirstMatch ==
    \A p \in Procs :
        Identified(p) =>
            /\ ~NoHelpFlag(osArgs[p]) => (cnt[p]["lock"] = 0 /\ "BEGIN" \notin log[p])
            /\ (NoHelpFlag(osArgs[p]) /\ HasMatch(osArgs[p])) =>
                   LockAttemptedFor(p, Canonical(osArgs[p][FirstMatch(osArgs[p])]))

\* started as `r gc`: the alias resolved to "run", the later "gc" ignored
C13_Witness ==
    \E p \in Procs :
        /\ osArgs[p] = <<sR, sGc>>
        /\ Matches(sGc)
        /\ currentCmd[p] = sRun
        /\ [key |-> LockKey(sRun), owner |-> p] \in flocks

\* C14: in a run that has exited, the FINISH record (and the push, when a
\* URL is configured) was produced exactly once if BEGIN was emitted and
\* not at all if it was not, however the engine ended.
C14_Original ==
    \A p \in Procs :
        Exited(p) =>
            /\ cnt[p]["finish"] = (IF "BEGIN" \in log[p] THEN 1 ELSE 0)
            /\ cnt[p]["push"] = (IF "BEGIN" \in log[p] /\ promPushUrl[p] THEN 1 ELSE 0)

Signalled(p) == "WARN_signal" \in log[p]
Paused(p) == cnt[p]["sleep"] = 1

\* C15 as stated: a successful run without a signal never pauses, and every
\* run that ends with an error (lock contention included) or a panic has
\* paused once before it exits.
C15_Original ==
    \A p \in Procs :
        Exited(p) =>
            /\ (exitCode[p] = 0 /\ ~Signalled(p)) => cnt[p]["sleep"] = 0
            /\ exitCode[p] = 1 => Paused(p)

\* C15: the shutdown body pauses, as its last step and at most once, exactly
\* when the call that runs it passed isNormal = false.  A successful run
\* without a signal never pauses; a run whose error or panic was logged
\* pauses once before it exits; the quiet lock-failure exit calls
\* shutdown(true) and does not pause unless the signal goroutine ran the
\* body; a pause happens only after a logged failure or a signal.
C15_GraceDelay ==
    \A p \in Procs :
        /\ cnt[p]["sleep"] <= 1
        /\ \A t \in Threads :
              pc[p][t] = "sd_ret" => (Paused(p) <=> ~sdNormal[p][t])
        /\ \A t \in Threads :
              pc[p][t] \in ShutdownBodyPcs \ {"sd_ret"} => ~Paused(p)
        /\ Exited(p) =>
              /\ (exitCode[p] = 0 /\ ~Signalled(p)) => ~Paused(p)
              /\ cnt[p]["errlog"] = 1 => Paused(p)
              /\ (TookQuietBranch(p) /\ ~Signalled(p)) => ~Paused(p)
              /\ Paused(p) => (cnt[p]["errlog"] = 1 \/ Signalled(p))

\* one run failed with a logged error and paused; another met the held lock,
\* left quietly and did not pause
C15_Witness ==
    \E p, q \in Procs :
        /\ Exited(p) /\ cnt[p]["errlog"] = 1 /\ ~Signalled(p) /\ Paused(p)
        /\ Exited(q) /\ scopeErr[q] = LockedErr /\ TookQuietBranch(q) /\ ~Paused(q)

InitFailed(p) == scopeErr[p].kind = "init"

\* C16: when GlobalInit returns an error the command body is never executed,
\* the error is logged, FINISH is recorded with success=false, the exit code
\* is 1, and a resource-closer returned with the error has been invoked by
\* the time the process exits.
C16_Original ==
    \A p \in Procs :
        InitFailed(p) =>
            /\ cnt[p]["body"] = 0
            /\ "BEGIN" \in log[p] /\ currentCmdLock[p] = "held"
            /\ pc[p].main # "epilogue" =>
                   (cnt[p]["errlog"] = 1 /\ loggedErr[p] = scopeErr[p])
            /\ Exited(p) =>
                   /\ "FINISH_warn_success_0" \in log[p]
                   /\ "FINISH_info_success_1" \notin log[p]
                   /\ exitCode[p] = 1
                   /\ resourcesCloser[p] # "nil" => cnt[p]["closer"] = 1

\* only ASCII alphanumerics and underscores, no two underscores adjacent
CleanToken(t) ==
    \A i \in DOMAIN t :
        /\ t[i] \in Alnum \cup {"_"}
        /\ (i > 1 /\ t[i] = "_") => t[i - 1] # "_"

\* s with each maximal run of characters outside [a-zA-Z0-9] replaced by one
\* underscore: the alphanumerics and the first character of every run are
\* kept, in order, the latter as "_"
OnePerRun(s) ==
    LET kept == {i \in DOMAIN s : s[i] \in Alnum \/ i = 1 \/ s[i - 1] \in Alnum}
        nth(k) == CHOOSE i \in kept : Cardinality({j \in kept : j <= i}) = k
    IN [k \in 1..Cardinality(kept) |->
           IF s[nth(k)] \in Alnum THEN s[nth(k)] ELSE "_"]

Sanitised(s, t) == t = OnePerRun(s) /\ CleanToken(t) /\ promStr(t) = t

\* C17 as stated: the lock token and the metric-name token consist of
\* alphanumerics and single underscores and of no other character.
C17_Original ==
    /\ \A l \in flocks : CleanToken(l.key)
    /\ \A p \in Procs : CleanToken(cmdFqName[p])

\* C17: the sanitiser replaces each maximal run of characters outside
\* [a-zA-Z0-9] by exactly one underscore, so its output has alphanumerics and
\* single underscores only and sanitising it again changes nothing.  The
\* metric-name token is the sanitised "<app>_<command>"; the lock token is
\* the sanitised application name and the sanitised command name joined by
\* one hyphen, which is the only other character in it.
C17_Tokens ==
    /\ \A l \in flocks :
          LET a == OnePerRun(appName)
              c == OnePerRun(currentCmd[l.owner])
          IN /\ l.key = a \o <<"-">> \o c
             /\ Sanitised(appName, a)
             /\ Sanitised(currentCmd[l.owner], c)
    /\ \A p \in Procs :
          cnt[p]["finish"] = 1 =>
              Sanitised(appName \o <<"_">> \o currentCmd[p], cmdFqName[p])

\* the application "my-app v2!!" ran its command "a-" to the FINISH record
C17_Witness ==
    \E p \in Procs :
        /\ appName = sExample /\ currentCmd[p] = <<"a", "-">>
        /\ [key |-> <<"m", "y", "_", "a", "p", "p", "_", "v", "2", "_", "-", "a", "_">>,
            owner |-> p] \in flocks
        /\ cmdFqName[p] = <<"m", "y", "_", "a", "p", "p", "_", "v", "2", "_", "a", "_">>

AtExit(p) == pc[p].main \in {"exit", "exited"}

\* C18: the main path reaches os.Exit only through a shutdown call that has
\* returned, and the call returns only when the shutdown body is complete:
\* while the signal goroutine is inside the body (the grace delay included)
\* the main path is not past the once-guard, and at exit BeforeShutdown has
\* returned, the context is cancelled and no thread is inside the body.
C18_ExitAfterShutdown ==
    \A p \in Procs :
        /\ AtExit(p) =>
              /\ onceDone[p] /\ onceM[p] = "free"
              /\ \A t \in Threads : ~InShutdownBody(p, t)
              /\ uf[p].BeforeShutdown => cnt[p]["bs"] = 1
              /\ ctxCancelled[p] /\ cnt[p]["cancel"] = 1
        /\ InShutdownBody(p, "sig") =>
              /\ ~AtExit(p) /\ ~InShutdownBody(p, "main")
              /\ onceM[p] = "sig" /\ ~onceDone[p]

\* the signal goroutine is in the grace delay of the body while the main
\* path, its outcome recorded, waits at the once-guard
C18_Witness ==
    \E p \in Procs :
        /\ pc[p].sig = "sd_sleep" /\ pc[p].main = "sd_enter"
        /\ cnt[p]["finish"] = 1

\* what a signal leaves alone: the exit code is set only by the main path's
\* os.Exit, with the value the epilogue chose from the engine's result
OnlyMainExits ==
    \A p \in Procs :
        exitCode'[p] # exitCode[p] =>
            /\ pc[p].main = "exit" /\ exitWith[p] # -1
            /\ exitCode'[p] = exitWith[p]

\* the signal goroutine takes one signal, runs shutdown and returns
OneSignalHandled ==
    \A p \in Procs :
        /\ pc'[p].sig = "wait" => pc[p].sig = "wait"
        /\ (pc[p].sig # pc'[p].sig /\ pc'[p].sig # "dead") =>
              /\ pc'[p].main = pc[p].main
              /\ scopeErr'[p] = scopeErr[p] /\ exitWith'[p] = exitWith[p]
              /\ panicking'[p] = panicking[p]

OutcomeFromEngine ==
    \A p \in Procs :
        /\ exitWith[p] # -1 => (exitWith[p] = IF EngineFailed(p) THEN 1 ELSE 0)
        /\ pc[p].sig = "returned" => (Signalled(p) /\ onceDone[p])
        /\ (Exited(p) /\ FinishRecorded(p)) =>
              ("FINISH_info_success_1" \in log[p] <=> exitCode[p] = 0)

\* C19: a signal alone neither ends the process nor changes its outcome:
\* only the main path exits, after the engine returned or panicked, with a
\* code that depends on the engine's result only; the signal goroutine
\* handles one signal; and, the engine returning, a signalled run
\* eventually exits.
C19_SignalAlone ==
    /\ []OutcomeFromEngine
    /\ [][OnlyMainExits /\ OneSignalHandled]_vars
    /\ \A p \in Procs : Signalled(p) ~> Exited(p)

\* a signalled run, the shutdown body run by the signal goroutine with its
\* pause, whose engine returned nil: exit code 0, success recorded
C19_Witness ==
    \E p \in Procs :
        /\ Signalled(p) /\ Paused(p) /\ pc[p].sig = "dead"
        /\ Exited(p) /\ exitCode[p] = 0
        /\ "FINISH_info_success_1" \in log[p]

LockFileOf(p) == [key |-> LockKey(currentCmd[p]), owner |-> p]
Initialising(p) == "BEGIN" \in log[p] \/ cnt[p]["ginit"] >= 1
NoInitRun(p) ==
    \/ ~NoHelpFlag(osArgs[p])
    \/ (NoArgMatches(osArgs[p]) /\ ~NoCommands)
    \/ scopeErr[p].kind \in {"conf", "lock"}

\* C20: BEGIN is emitted and GlobalInit is invoked only after this process
\* acquired the lock of the resolved command, and while it runs it holds
\* that lock file; GlobalInit is invoked at most once; neither happens in a
\* help run, when no command was resolved, when the configuration failed to
\* load or when the lock was not acquired.
C20_InitUnderLock ==
    \A p \in Procs :
        /\ cnt[p]["ginit"] <= 1 /\ cnt[p]["begin"] <= 1
        /\ cnt[p]["ginit"] = 1 => (uf[p].GlobalInit /\ "BEGIN" \in log[p])
        /\ Initialising(p) =>
              /\ cnt[p]["lock"] = 1 /\ currentCmdLock[p] = "held"
              /\ IdentifyCmd(Commands, osArgs[p]).proceed
              /\ currentCmd[p] = IdentifyCmd(Commands, osArgs[p]).cmd
              /\ Alive(p) => LockFileOf(p) \in flocks
        /\ NoInitRun(p) => ~Initialising(p)
        /\ pc[p].main = "ginit" => (LockFileOf(p) \in flocks /\ "BEGIN" \in log[p])

\* GlobalInit has been invoked, and failed, under the lock of "run"
C20_Witness ==
    \E p \in Procs :
        /\ cnt[p]["ginit"] = 1 /\ InitFailed(p) /\ Alive(p)
        /\ currentCmd[p] = sRun /\ LockFileOf(p) \in flocks

====
